---------------------------- MODULE Spec2Model ----------------------------
(***************************************************************************)
(* State-machine model of the STRATUS flight demo client                   *)
(* (src/client/main.js): the Airplane flight model, the scene composer     *)
(* buildScene with its asynchronous ground-texture load, the keyboard and  *)
(* scene-select handlers installed by init, and the animate tick; and of   *)
(* the demo's HTTP server (src/unnamed/part_000): the scene catalog, the   *)
(* request handler and the telemetry body listeners.                       *)
(*                                                                         *)
(* Numbers.  The source computes in IEEE doubles; the model computes in    *)
(* exact fixed point, every quantity an integer multiple of its unit:      *)
(*   throttle          1/ThrottleScale          (0.3 is 30, 0.05 is 5)     *)
(*   velocity          1/VelScale units/s       (59 units/s is 5900)       *)
(*   angles            degrees                  (degToRad(30) is 30)       *)
(*   delta             1/TimeScale s            (0.5 s is 1, 1 s is 2)     *)
(*   direction vectors 1/TrigScale                                         *)
(*   positions         1/PosScale units         (altitude 5 is 500000)     *)
(*   light intensity   tenths                   (0.6 is 6)                 *)
(* Angles stay on the 15-degree grid on which Sin and Cos are tabulated.   *)
(***************************************************************************)
EXTENDS Integers, Sequences, FiniteSets, Bags, TLC

VARIABLES
    player,     \* the global `player`: the current Airplane object
    scene,      \* the global `scene`: the active World built by buildScene
    pending,    \* bag of texture loads started by textureLoader.load, not yet settled
    held,       \* keys the keyboard currently holds down (event source state)
    camera,     \* the global `camera`: position and look-at target
    hudEl,      \* whether document.getElementById('hud') finds an element
    hud,        \* text last written to the #hud element, or NoHud
    raf,        \* number of animate callbacks queued by requestAnimationFrame
    frame,      \* what renderer.render drew last: the World and the camera it was given
    ev,         \* history: the handler that ran last, with its arguments
    composed,   \* history: the World of the first buildScene of each definition
    ups,        \* history: ArrowUp presses on this Airplane, NoRun after an ArrowDown
    diveTime,   \* history: tick time spent with pitchInput -1 since level flight, or NoRun
    scenes,     \* the server's `scenes` array
    conns       \* the server's connections: the request on each and what was answered

client == <<player, scene, pending, held, camera, hudEl, hud, raf, frame, ev, composed, ups,
            diveTime>>
server == <<scenes, conns>>
vars == <<player, scene, pending, held, camera, hudEl, hud, raf, frame, ev, composed, ups,
          diveTime, scenes, conns>>

----------------------------------------------------------------------------
(* Units of the fixed-point representation *)

ThrottleScale == 100
VelScale == 100
TimeScale == 2
TrigScale == 1000
PosScale == VelScale * TrigScale

(* Bounds of the model *)

\* Tick is explored while the aircraft is within MaxRange units of its start in z
MaxRange == 60
\* buildScene is explored while fewer than MaxPending texture loads are unsettled
MaxPending == 2

----------------------------------------------------------------------------
(* SCENES, main.js 27-58.  Colours are the decimal values of the hex literals. *)

SCENES ==
    << [id |-> "coast", name |-> "Cote luminescente",
        skyColor |-> 9613024, fogColor |-> 8956096, groundColor |-> 4679548,
        ambient |-> 4478320, directional |-> 16768178,
        groundTexture |-> "assets/coast.png"],
       [id |-> "alps", name |-> "Alpes d'ardoise",
        skyColor |-> 11128035, fogColor |-> 13621221, groundColor |-> 7174794,
        ambient |-> 5792371, directional |-> 15660543,
        groundTexture |-> "assets/alps.png"],
       [id |-> "desert", name |-> "Desert mirage",
        skyColor |-> 15843965, fogColor |-> 14988417, groundColor |-> 14002285,
        ambient |-> 9268810, directional |-> 16773570,
        groundTexture |-> "assets/desert.png"] >>

SceneIds == {SCENES[i].id : i \in 1..Len(SCENES)}

\* SCENES.find((s) => s.id === selectedId): the first match, or NoDef for undefined
NoDef == [id |-> "undefined"]

\* faulty variant of find: an unknown id falls back to the first definition
find_firstOnMiss(selectedId) ==
    IF \E i \in 1..Len(SCENES) : SCENES[i].id = selectedId
    THEN SCENES[CHOOSE i \in 1..Len(SCENES) : SCENES[i].id = selectedId]
    ELSE SCENES[1]

find(selectedId) ==
    IF \E i \in 1..Len(SCENES) : SCENES[i].id = selectedId
    THEN SCENES[CHOOSE i \in 1..Len(SCENES) :
                    /\ SCENES[i].id = selectedId
                    /\ \A j \in 1..(i - 1) : SCENES[j].id # selectedId]
    ELSE NoDef

----------------------------------------------------------------------------
(* Arithmetic helpers *)

Max(a, b) == IF a >= b THEN a ELSE b
Min(a, b) == IF a <= b THEN a ELSE b
Abs(a) == IF a >= 0 THEN a ELSE 0 - a

\* faulty variant of clamp: the lower limit is not applied
clamp_noLower(value, min, max) == Min(max, value)

\* faulty variant of clamp: the upper limit is not applied
clamp_noUpper(value, min, max) == Max(min, value)

\* function clamp(value, min, max), main.js 61-63
clamp(value, min, max) == Max(min, Min(max, value))

\* faulty variant of lerp: the end points are exchanged
lerp_swapped(x, y, t) == (t * x + (ThrottleScale - t) * y) \div ThrottleScale

\* THREE.MathUtils.lerp(x, y, t) = (1 - t) * x + t * y, with t in 1/ThrottleScale
lerp(x, y, t) == ((ThrottleScale - t) * x + t * y) \div ThrottleScale

\* Math.sin and Math.cos on the 15-degree grid, rounded to 1/TrigScale
SinTable == [a \in {0, 15, 30, 45, 60, 75, 90} |->
                CASE a = 0 -> 0 [] a = 15 -> 259 [] a = 30 -> 500 [] a = 45 -> 707
                  [] a = 60 -> 866 [] a = 75 -> 966 [] a = 90 -> 1000]

Sin(a) == IF a >= 0 THEN SinTable[a] ELSE 0 - SinTable[0 - a]
Cos(a) == SinTable[90 - Abs(a)]

\* x * y / TrigScale rounded to the nearest unit, symmetric in sign
MulTrig(x, y) ==
    LET p == x * y
    IN  IF p >= 0 THEN (2 * p + TrigScale) \div (2 * TrigScale)
        ELSE 0 - ((2 * (0 - p) + TrigScale) \div (2 * TrigScale))

\* rotation of v about the z axis by r degrees, then about the x axis by p
RotZ(r, v) ==
    << MulTrig(v[1], Cos(r)) - MulTrig(v[2], Sin(r)),
       MulTrig(v[1], Sin(r)) + MulTrig(v[2], Cos(r)),
       v[3] >>

RotX(p, v) ==
    << v[1],
       MulTrig(v[2], Cos(p)) - MulTrig(v[3], Sin(p)),
       MulTrig(v[2], Sin(p)) + MulTrig(v[3], Cos(p)) >>

\* faulty variant of applyQuaternion: the angles are taken in ZYX order, Rz * Rx
applyQuaternion_rollLast(v, rot) == RotZ(rot.z, RotX(rot.x, v))

\* Vector3.applyQuaternion(group.quaternion) for the Euler angles
\* (rotation.x, 0, rotation.z) in the default XYZ order: Rx * Rz
applyQuaternion(v, rot) == RotX(rot.x, RotZ(rot.z, v))

\* integer square root, rounded to the nearest integer
RECURSIVE SqrtSearch(_, _, _)
SqrtSearch(n, lo, hi) ==
    IF lo >= hi THEN lo
    ELSE LET mid == (lo + hi + 1) \div 2
         IN  IF mid * mid <= n THEN SqrtSearch(n, mid, hi)
             ELSE SqrtSearch(n, lo, mid - 1)

Sqrt(n) ==
    LET f == SqrtSearch(n, 0, 2 * TrigScale)
    IN  IF n - f * f <= (f + 1) * (f + 1) - n THEN f ELSE f + 1

\* Vector3.normalize(): divide by the length (the zero vector stays zero)
DivRound(a, b) ==
    IF a >= 0 THEN (2 * a + b) \div (2 * b)
    ELSE 0 - ((2 * (0 - a) + b) \div (2 * b))

normalize(v) ==
    LET len == Sqrt(v[1] * v[1] + v[2] * v[2] + v[3] * v[3])
    IN  IF len = 0 THEN v
        ELSE << DivRound(v[1] * TrigScale, len),
                DivRound(v[2] * TrigScale, len),
                DivRound(v[3] * TrigScale, len) >>

----------------------------------------------------------------------------
(* class Airplane, main.js 70-133 *)

\* constructor() and buildModel(): the fields of a new Airplane.  rotation holds
\* the two Euler angles the program ever sets (rotation.y stays 0).
Airplane ==
    [throttle |-> 30, pitchInput |-> 0, rollInput |-> 0, velocity |-> 0,
     rotation |-> [x |-> 0, z |-> 0],
     position |-> <<0, 5 * PosScale, 0>>]

maxPitchAngle == 30
maxRollAngle == 75
pitchRate == 30
rollRate == 60
minSpeed == 20
maxSpeed == 150
groundFloor == 2

\* faulty variant of floorAltitude: no floor
floorAltitude_none(y) == y

\* the ground floor, main.js 129-131
floorAltitude(y) == IF y < groundFloor * PosScale THEN groundFloor * PosScale ELSE y

\* the direction the aircraft moves in: (0, 0, -1) turned by the group's quaternion
forwardOf(rot) == normalize(applyQuaternion(<<0, 0, 0 - TrigScale>>, rot))

\* faulty variant of update: the inputs are used up by the step
update_consumesInput(p, delta) ==
    LET rx == clamp(p.rotation.x + (p.pitchInput * pitchRate * delta) \div TimeScale,
                    0 - maxPitchAngle, maxPitchAngle)
        rz == clamp(p.rotation.z + (p.rollInput * rollRate * delta) \div TimeScale,
                    0 - maxRollAngle, maxRollAngle)
        rot == [x |-> rx, z |-> rz]
        velocity == lerp(minSpeed * VelScale, maxSpeed * VelScale, p.throttle)
        forward == forwardOf(rot)
        moved == [i \in 1..3 |-> p.position[i] + (forward[i] * (velocity * delta)) \div TimeScale]
    IN  [throttle |-> p.throttle, pitchInput |-> 0, rollInput |-> 0,
         velocity |-> velocity, rotation |-> rot,
         position |-> <<moved[1], floorAltitude(moved[2]), moved[3]>>]

\* update(delta), main.js 110-132
update(p, delta) ==
    LET pitchInput == clamp(p.pitchInput, -1, 1)
        rollInput == clamp(p.rollInput, -1, 1)
        rx == clamp(p.rotation.x + (pitchInput * pitchRate * delta) \div TimeScale,
                    0 - maxPitchAngle, maxPitchAngle)
        rz == clamp(p.rotation.z + (rollInput * rollRate * delta) \div TimeScale,
                    0 - maxRollAngle, maxRollAngle)
        rot == [x |-> rx, z |-> rz]
        velocity == lerp(minSpeed * VelScale, maxSpeed * VelScale, p.throttle)
        forward == forwardOf(rot)
        displacement == [i \in 1..3 |-> (forward[i] * (velocity * delta)) \div TimeScale]
        moved == [i \in 1..3 |-> p.position[i] + displacement[i]]
        y == floorAltitude(moved[2])
    IN  [throttle |-> p.throttle, pitchInput |-> pitchInput, rollInput |-> rollInput,
         velocity |-> velocity, rotation |-> rot,
         position |-> <<moved[1], y, moved[3]>>]

----------------------------------------------------------------------------
(* updateHUD, main.js 143-150 *)

\* Number.prototype.toFixed: value (in 1/scale) rounded to `digits` decimals,
\* as an integer count of 10^-digits
toFixed(value, scale, digits) ==
    LET unit == IF digits = 0 THEN 1 ELSE 10
    IN  DivRound(value * unit, scale)

NoHud == [altitude |-> 0 - 1, speed |-> 0 - 1, throttle |-> 0 - 1]

\* faulty variant of updateHUD: the text is produced whether or not the
\* element is there
updateHUD_unguarded(old, present, p) ==
    [altitude |-> toFixed(p.position[2], PosScale, 1),
     speed |-> toFixed(p.velocity, VelScale, 1),
     throttle |-> toFixed(p.throttle * 100, ThrottleScale, 0)]

\* the text of the #hud element after updateHUD() when it held `old`
updateHUD(old, present, p) ==
    IF ~present THEN old
    ELSE [altitude |-> toFixed(p.position[2], PosScale, 1),
          speed |-> toFixed(p.velocity, VelScale, 1),
          throttle |-> toFixed(p.throttle * 100, ThrottleScale, 0)]

----------------------------------------------------------------------------
(* buildScene, main.js 165-205 *)

NoTexture == [image |-> "null", wrapS |-> "null", wrapT |-> "null", repeat |-> <<0, 0>>]

\* faulty variant of World: the material is created with the texture already in place
World_withTexture(def) ==
    [def |-> def.id,
     background |-> def.skyColor,
     fog |-> [color |-> def.fogColor, near |-> 200, far |-> 15000],
     ambient |-> [color |-> def.ambient, intensity |-> 6],
     dirLight |-> [color |-> def.directional, intensity |-> 10],
     ground |-> [color |-> def.groundColor,
                 map |-> [image |-> def.groundTexture, wrapS |-> "RepeatWrapping",
                          wrapT |-> "RepeatWrapping", repeat |-> <<500, 500>>]]]

\* the synchronous part of buildScene(def): the new World.  `def` records the
\* definition it was composed from.
World(def) ==
    [def |-> def.id,
     background |-> def.skyColor,
     fog |-> [color |-> def.fogColor, near |-> 200, far |-> 15000],
     ambient |-> [color |-> def.ambient, intensity |-> 6],
     dirLight |-> [color |-> def.directional, intensity |-> 10],
     ground |-> [color |-> def.groundColor, map |-> NoTexture]]

\* a load started by textureLoader.load(url, callback): `live` says that the
\* groundMat its callback captured is the ground material of the active World
Load(url, live) == [url |-> url, live |-> live]

\* the loads still unsettled once buildScene(def) has run: the callbacks of the
\* earlier loads now hold the material of a discarded World
Discard(loads) ==
    LET urls == {l.url : l \in BagToSet(loads)}
        count(u) == (IF BagIn(Load(u, TRUE), loads) THEN loads[Load(u, TRUE)] ELSE 0)
                    + (IF BagIn(Load(u, FALSE), loads) THEN loads[Load(u, FALSE)] ELSE 0)
    IN  [l \in {Load(u, FALSE) : u \in urls} |-> count(l.url)]

startLoad(def, loads) ==
    IF "groundTexture" \in DOMAIN def
    THEN Discard(loads) (+) SetToBag({Load(def.groundTexture, TRUE)})
    ELSE Discard(loads)

\* faulty variant of Texture: the texture is left at its default repeat
Texture_untiled(url) ==
    [image |-> url, wrapS |-> "RepeatWrapping", wrapT |-> "RepeatWrapping",
     repeat |-> <<1, 1>>]

\* the texture handed to the load callback, after the callback configured it
Texture(url) ==
    [image |-> url, wrapS |-> "RepeatWrapping", wrapT |-> "RepeatWrapping",
     repeat |-> <<500, 500>>]

\* faulty variant of onLoad: the callback writes to the ground of whichever World is active
onLoad_intoActive(w, load) == [w EXCEPT !.ground.map = Texture(load.url)]

\* the callback of a finished load: groundMat.map = tex on the captured material
onLoad(w, load) ==
    IF load.live THEN [w EXCEPT !.ground.map = Texture(load.url)] ELSE w

----------------------------------------------------------------------------
(* The handlers installed by init, main.js 224-270 *)

\* faulty variant of keydown: a press on one axis centres the other axis
keydown_centresOther(p, key) ==
    CASE key = "ArrowUp" -> [p EXCEPT !.throttle = clamp(p.throttle + 5, 0, ThrottleScale)]
      [] key = "ArrowDown" -> [p EXCEPT !.throttle = clamp(p.throttle - 5, 0, ThrottleScale)]
      [] key \in {"w", "W"} -> [p EXCEPT !.pitchInput = 0 - 1, !.rollInput = 0]
      [] key \in {"s", "S"} -> [p EXCEPT !.pitchInput = 1, !.rollInput = 0]
      [] key \in {"a", "A"} -> [p EXCEPT !.rollInput = 0 - 1, !.pitchInput = 0]
      [] key \in {"d", "D"} -> [p EXCEPT !.rollInput = 1, !.pitchInput = 0]
      [] OTHER -> p

\* faulty variant of keydown: the throttle keys step without the clamp
keydown_unclamped(p, key) ==
    CASE key = "ArrowUp" -> [p EXCEPT !.throttle = p.throttle + 5]
      [] key = "ArrowDown" -> [p EXCEPT !.throttle = p.throttle - 5]
      [] key \in {"w", "W"} -> [p EXCEPT !.pitchInput = 0 - 1]
      [] key \in {"s", "S"} -> [p EXCEPT !.pitchInput = 1]
      [] key \in {"a", "A"} -> [p EXCEPT !.rollInput = 0 - 1]
      [] key \in {"d", "D"} -> [p EXCEPT !.rollInput = 1]
      [] OTHER -> p

\* keydown listener, main.js 229-254: the Airplane after the switch on ev.key
keydown(p, key) ==
    CASE key = "ArrowUp" -> [p EXCEPT !.throttle = clamp(p.throttle + 5, 0, ThrottleScale)]
      [] key = "ArrowDown" -> [p EXCEPT !.throttle = clamp(p.throttle - 5, 0, ThrottleScale)]
      [] key \in {"w", "W"} -> [p EXCEPT !.pitchInput = 0 - 1]
      [] key \in {"s", "S"} -> [p EXCEPT !.pitchInput = 1]
      [] key \in {"a", "A"} -> [p EXCEPT !.rollInput = 0 - 1]
      [] key \in {"d", "D"} -> [p EXCEPT !.rollInput = 1]
      [] OTHER -> p

\* faulty variant of keyup: a release centres the other axis
keyup_axesSwapped(p, key) ==
    CASE key \in {"w", "W", "s", "S"} -> [p EXCEPT !.rollInput = 0]
      [] key \in {"a", "A", "d", "D"} -> [p EXCEPT !.pitchInput = 0]
      [] OTHER -> p

\* faulty variant of keyup: a release hands the axis to the opposing key when that key
\* is still down
keyup_opposingWins(p, key) ==
    CASE key \in {"w", "W"} ->
             [p EXCEPT !.pitchInput = IF {"s", "S"} \cap held # {} THEN 1 ELSE 0]
      [] key \in {"s", "S"} ->
             [p EXCEPT !.pitchInput = IF {"w", "W"} \cap held # {} THEN 0 - 1 ELSE 0]
      [] key \in {"a", "A"} ->
             [p EXCEPT !.rollInput = IF {"d", "D"} \cap held # {} THEN 1 ELSE 0]
      [] key \in {"d", "D"} ->
             [p EXCEPT !.rollInput = IF {"a", "A"} \cap held # {} THEN 0 - 1 ELSE 0]
      [] OTHER -> p

\* keyup listener, main.js 255-270
keyup(p, key) ==
    CASE key \in {"w", "W", "s", "S"} -> [p EXCEPT !.pitchInput = 0]
      [] key \in {"a", "A", "d", "D"} -> [p EXCEPT !.rollInput = 0]
      [] OTHER -> p

\* camera placement of animate, main.js 286-289: the offset (0, 5, 15) turned by
\* the aircraft's quaternion, added to its position; lookAt aims at the aircraft
cameraFor(p) ==
    LET offset == applyQuaternion(<<0, 5 * VelScale, 15 * VelScale>>, p.rotation)
    IN  [position |-> [i \in 1..3 |-> p.position[i] + offset[i] * TrigScale],
         target |-> p.position]

\* renderer.render(scene, camera), main.js 290: the frame on the canvas
render(w, cam) == [scene |-> w, camera |-> cam]

Event(type, key, id, delta, from) ==
    [type |-> type, key |-> key, id |-> id, delta |-> delta, from |-> from]

----------------------------------------------------------------------------
(* History variables *)

\* the World as buildScene left it: everything but the texture that arrives later
Composition(w) == [w EXCEPT !.ground.map = NoTexture]

\* `composed` once a World w has been built
recordFirst(seen, w) ==
    IF \E c \in seen : c.def = w.def THEN seen ELSE seen \cup {Composition(w)}

NoRun == 0 - 1
RunCap == ThrottleScale \div 5

\* `ups` once keydown(key) has run
countUps(n, key) ==
    CASE key = "ArrowUp" -> IF n = NoRun THEN NoRun ELSE Min(RunCap, n + 1)
      [] key = "ArrowDown" -> NoRun
      [] OTHER -> n

\* `diveTime` is counted up to DiveCap
DiveCap == 2 * TimeScale

\* `diveTime` once a handler has left the aircraft as p, `delta` of tick time
\* having passed in it: the count starts when the nose-down input is in
\* effect at pitch 0 and ends when the input is no longer in effect
countDive(t, p, delta) ==
    IF p.pitchInput # 0 - 1 THEN NoRun
    ELSE IF t # NoRun THEN Min(DiveCap, t + delta)
    ELSE IF p.rotation.x = 0 THEN 0
    ELSE NoRun

----------------------------------------------------------------------------
(* The HTTP server, src/unnamed/part_000 52-236 *)

\* request bodies are explored up to MaxBody characters
MaxBody == 2

\* the connections explored
Conns == {"a", "b"}

\* `scenes`, part_000 71-96
ServerScenes ==
    << [id |-> "coast", name |-> "Cote luminescente",
        presets |-> [weather |-> <<"clair", "couvert", "orageux">>,
                     time |-> <<"aube", "midi", "golden hour", "nuit">>]],
       [id |-> "alps", name |-> "Alpes d'ardoise",
        presets |-> [weather |-> <<"clair", "neige", "brumeux">>,
                     time |-> <<"aube", "midi", "golden hour", "nuit">>]],
       [id |-> "desert", name |-> "Desert mirage",
        presets |-> [weather |-> <<"clair", "chaleur", "orageux">>,
                     time |-> <<"aube", "midi", "golden hour", "nuit">>]] >>

\* A request as the handler sees it: req.method, the pathname of req.url and
\* the values of its `scene` query parameters in order (none: the parameter
\* is missing; several: url.parse gives an array)
IncomingMessage(method, pathname, query) ==
    [method |-> method, pathname |-> pathname, query |-> query]
NoRequest == IncomingMessage("", "", <<>>)

\* A connection: the request being handled, the body its client sends
\* (history, kept where the listener reads the body), the characters of it
\* not yet delivered, the handler's `body` string, and the responses written
Idle ==
    [phase |-> "idle", req |-> NoRequest, payload |-> <<>>, rest |-> <<>>, body |-> <<>>,
     res |-> <<>>]

\* sendJSON(res, status, data), part_000 105-114; the JSON text is kept as
\* the value it denotes
sendJSON(res, status, data) == Append(res, [status |-> status, data |-> data])

\* res.writeHead(status, ...); res.end(data) with data that is not JSON
sendRaw(res, status, data) == Append(res, [status |-> status, data |-> data])

\* scenes.map(({ id, name }) => ({ id, name })), part_000 192
sceneList(catalog) ==
    [i \in 1..Len(catalog) |-> [id |-> catalog[i].id, name |-> catalog[i].name]]

\* faulty variant of findScene: a miss falls back to the first entry
findScene_orFirst(catalog, query) ==
    IF \E i \in 1..Len(catalog) : Len(query) = 1 /\ catalog[i].id = query[1]
    THEN LET i == CHOOSE n \in 1..Len(catalog) :
                      /\ catalog[n].id = query[1]
                      /\ \A m \in 1..(n - 1) : catalog[m].id # query[1]
         IN  i
    ELSE 1

\* scenes.find((s) => s.id === parsed.query.scene), part_000 197-198: the
\* index of the first entry whose id is the parameter's one value, 0 for
\* undefined (a missing parameter and an array equal no id)
findScene(catalog, query) ==
    IF \E i \in 1..Len(catalog) : Len(query) = 1 /\ catalog[i].id = query[1]
    THEN LET i == CHOOSE n \in 1..Len(catalog) :
                      /\ catalog[n].id = query[1]
                      /\ \A m \in 1..(n - 1) : catalog[m].id # query[1]
         IN  i
    ELSE 0

\* serveStatic(reqPath, res), part_000 118-172, by what the file system
\* holds: the file itself, else index.html, else nothing
serveStatic(res, reqPath, fs) ==
    CASE fs = "file" -> sendRaw(res, 200, reqPath)
      [] fs = "index" -> sendRaw(res, 200, "/index.html")
      [] OTHER -> res

\* JSON.parse on texts over the characters "[", "]" and "7": the position
\* after the value that starts at position i of s, 0 when none starts there
RECURSIVE parseValue(_, _)
parseValue(s, i) ==
    IF i > Len(s) THEN 0
    ELSE IF s[i] = "7"
         THEN IF i < Len(s) /\ s[i + 1] = "7" THEN parseValue(s, i + 1) ELSE i + 1
    ELSE IF s[i] = "["
         THEN IF i < Len(s) /\ s[i + 1] = "]" THEN i + 2
              ELSE LET j == parseValue(s, i + 1)
                   IN  IF j # 0 /\ j <= Len(s) /\ s[j] = "]" THEN j + 1 ELSE 0
    ELSE 0

\* faulty variant of JSONparse: a text that starts with a value is accepted
JSONparse_prefix(text) == parseValue(text, 1) # 0

\* whether JSON.parse(text) returns (TRUE) or throws (FALSE), part_000 213
JSONparse(text) == parseValue(text, 1) = Len(text) + 1

\* the request listener, part_000 174-232, run for `req` on an idle
\* connection: the connection afterwards
onRequest(catalog, req, payload, fs) ==
    LET answered(res) == [Idle EXCEPT !.phase = "done", !.req = req, !.res = res]
        notFound == sendJSON(<<>>, 404, [error |-> "Not found"])
    IN  IF req.method = "OPTIONS" THEN answered(sendRaw(<<>>, 204, ""))
        ELSE IF req.method = "GET" /\ req.pathname = "/api/scenes"
             THEN answered(sendJSON(<<>>, 200, sceneList(catalog)))
        ELSE IF req.method = "GET" /\ req.pathname = "/api/presets"
             THEN LET i == findScene(catalog, req.query)
                  IN  IF i = 0
                      THEN answered(sendJSON(<<>>, 404, [error |-> "Scene not found"]))
                      ELSE answered(sendJSON(<<>>, 200, catalog[i].presets))
        ELSE IF req.method = "POST" /\ req.pathname = "/api/telemetry"
             THEN [Idle EXCEPT !.phase = "body", !.req = req, !.payload = payload,
                               !.rest = payload]
        ELSE IF req.method = "GET"
             THEN LET served == serveStatic(<<>>, IF req.pathname = "/" THEN "/index.html"
                                                  ELSE req.pathname, fs)
                  IN  IF served = <<>> THEN answered(notFound) ELSE answered(served)
        ELSE answered(notFound)

\* the 'data' listener, part_000 208-210, given the next n characters
onData(conn, n) ==
    [conn EXCEPT !.body = conn.body \o SubSeq(conn.rest, 1, n),
                 !.rest = SubSeq(conn.rest, n + 1, Len(conn.rest))]

\* the 'end' listener, part_000 211-219
onEnd(conn) ==
    [conn EXCEPT !.phase = "done",
                 !.res = IF JSONparse(conn.body)
                         THEN sendJSON(conn.res, 200, [status |-> "ok"])
                         ELSE sendJSON(conn.res, 400, [error |-> "Invalid JSON"])]

----------------------------------------------------------------------------
(* Initial state: init() has run to completion, main.js 208-274.  It builds *)
(* SCENES[0] and calls animate() once; the Clock's first getDelta() is 0.   *)
(* The server listens with no connection open.                             *)

Init ==
    /\ player = update(Airplane, 0)
    /\ scene = World(SCENES[1])
    /\ pending = startLoad(SCENES[1], EmptyBag)
    /\ held = {}
    /\ camera = cameraFor(update(Airplane, 0))
    /\ hudEl = TRUE
    /\ hud = updateHUD(NoHud, TRUE, update(Airplane, 0))
    /\ raf = 1
    /\ frame = render(World(SCENES[1]), cameraFor(update(Airplane, 0)))
    /\ ev = Event("init", "", SCENES[1].id, 0, "")
    /\ composed = recordFirst({}, World(SCENES[1]))
    /\ ups = 0
    /\ diveTime = NoRun
    /\ scenes = ServerScenes
    /\ conns = [c \in Conns |-> Idle]

\* The same in a page without a #hud element: getElementById returns null
\* (main.js 144) and updateHUD returns before writing (main.js 145)
InitNoHud ==
    /\ player = update(Airplane, 0)
    /\ scene = World(SCENES[1])
    /\ pending = startLoad(SCENES[1], EmptyBag)
    /\ held = {}
    /\ camera = cameraFor(update(Airplane, 0))
    /\ hudEl = FALSE
    /\ hud = updateHUD(NoHud, FALSE, update(Airplane, 0))
    /\ raf = 1
    /\ frame = render(World(SCENES[1]), cameraFor(update(Airplane, 0)))
    /\ ev = Event("init", "", SCENES[1].id, 0, "")
    /\ composed = recordFirst({}, World(SCENES[1]))
    /\ ups = 0
    /\ diveTime = NoRun
    /\ scenes = ServerScenes
    /\ conns = [c \in Conns |-> Idle]

----------------------------------------------------------------------------
(* Actions *)

\* faulty variant of SceneSelect: the fog of the new World is coloured from the
\* definition of the World it replaces
SceneSelect_staleFog(selectedId) ==
    LET def == find(selectedId)
    IN  /\ def # NoDef => BagCardinality(pending) < MaxPending
        /\ IF def # NoDef
           THEN /\ scene' = [World(def) EXCEPT !.fog.color = find(scene.def).fogColor]
                /\ pending' = startLoad(def, pending)
                /\ player' = Airplane
                /\ composed' = recordFirst(composed, scene')
                /\ ups' = 0
           ELSE UNCHANGED <<scene, pending, player, composed, ups>>
        /\ ev' = Event("change", "", selectedId, 0, scene.def)
        /\ diveTime' = countDive(diveTime, player', 0)
        /\ UNCHANGED <<held, camera, hudEl, hud, raf, frame>>
        /\ UNCHANGED server

\* 'change' on #scene-select, main.js 224-228; buildScene replaces the World,
\* starts the texture load and creates a new Airplane (main.js 203).  The
\* listener runs for whatever id the event carries, the selected one included.
SceneSelect(selectedId) ==
    LET def == find(selectedId)
    IN  /\ def # NoDef => BagCardinality(pending) < MaxPending
        /\ IF def # NoDef
           THEN /\ scene' = World(def)
                /\ pending' = startLoad(def, pending)
                /\ player' = Airplane
                /\ composed' = recordFirst(composed, scene')
                /\ ups' = 0
           ELSE UNCHANGED <<scene, pending, player, composed, ups>>
        /\ ev' = Event("change", "", selectedId, 0, scene.def)
        /\ diveTime' = countDive(diveTime, player', 0)
        /\ UNCHANGED <<held, camera, hudEl, hud, raf, frame>>
        /\ UNCHANGED server

\* 'keydown' on window (a held key repeats), main.js 229-254
KeyDown(key) ==
    /\ player' = keydown(player, key)
    /\ held' = held \cup {key}
    /\ ev' = Event("keydown", key, "", 0, "")
    /\ ups' = countUps(ups, key)
    /\ diveTime' = countDive(diveTime, player', 0)
    /\ UNCHANGED <<scene, pending, camera, hudEl, hud, raf, frame, composed>>
    /\ UNCHANGED server

\* 'keyup' on window, for a key that is down, main.js 255-270
KeyUp(key) ==
    /\ key \in held
    /\ player' = keyup(player, key)
    /\ held' = held \ {key}
    /\ ev' = Event("keyup", key, "", 0, "")
    /\ diveTime' = countDive(diveTime, player', 0)
    /\ UNCHANGED <<scene, pending, camera, hudEl, hud, raf, frame, composed, ups>>
    /\ UNCHANGED server

\* faulty variant of Tick: the HUD is written before the aircraft is updated
Tick_hudFirst(delta) ==
    /\ raf > 0
    /\ player.position[3] > 0 - MaxRange * PosScale
    /\ raf' = (raf - 1) + 1
    /\ player' = update(player, delta)
    /\ camera' = cameraFor(player')
    /\ frame' = render(scene, camera')
    /\ hud' = updateHUD(hud, hudEl, player)
    /\ ev' = Event("tick", "", "", delta, "")
    /\ diveTime' = countDive(diveTime, player', delta)
    /\ UNCHANGED <<scene, pending, held, hudEl, composed, ups>>
    /\ UNCHANGED server

\* faulty variant of Tick: the camera is placed before the aircraft is updated
Tick_cameraFirst(delta) ==
    /\ raf > 0
    /\ player.position[3] > 0 - MaxRange * PosScale
    /\ raf' = (raf - 1) + 1
    /\ player' = update(player, delta)
    /\ camera' = cameraFor(player)
    /\ frame' = render(scene, camera')
    /\ hud' = updateHUD(hud, hudEl, player')
    /\ ev' = Event("tick", "", "", delta, "")
    /\ diveTime' = countDive(diveTime, player', delta)
    /\ UNCHANGED <<scene, pending, held, hudEl, composed, ups>>
    /\ UNCHANGED server

\* faulty variant of Tick: animate does not ask for the next frame
Tick_noReschedule(delta) ==
    /\ raf > 0
    /\ player.position[3] > 0 - MaxRange * PosScale
    /\ raf' = raf - 1
    /\ player' = update(player, delta)
    /\ camera' = cameraFor(player')
    /\ frame' = render(scene, camera')
    /\ hud' = updateHUD(hud, hudEl, player')
    /\ ev' = Event("tick", "", "", delta, "")
    /\ diveTime' = countDive(diveTime, player', delta)
    /\ UNCHANGED <<scene, pending, held, hudEl, composed, ups>>
    /\ UNCHANGED server

\* one run of animate with clock.getDelta() = delta, main.js 282-292: the
\* callback leaves the queue, asks for the next frame, then does the frame
Tick(delta) ==
    /\ raf > 0
    /\ player.position[3] > 0 - MaxRange * PosScale
    /\ raf' = (raf - 1) + 1
    /\ player' = update(player, delta)
    /\ camera' = cameraFor(player')
    /\ frame' = render(scene, camera')
    /\ hud' = updateHUD(hud, hudEl, player')
    /\ ev' = Event("tick", "", "", delta, "")
    /\ diveTime' = countDive(diveTime, player', delta)
    /\ UNCHANGED <<scene, pending, held, hudEl, composed, ups>>
    /\ UNCHANGED server

\* a texture load finishes and its callback runs, main.js 190-197
TextureLoaded(load) ==
    /\ BagIn(load, pending)
    /\ scene' = onLoad(scene, load)
    /\ pending' = pending (-) SetToBag({load})
    /\ ev' = Event("load", load.url, "", 0, "")
    /\ UNCHANGED <<player, held, camera, hudEl, hud, raf, frame, composed, ups, diveTime>>
    /\ UNCHANGED server

\* a texture load fails: no onError callback was given, nothing runs
TextureFailed(load) ==
    /\ BagIn(load, pending)
    /\ pending' = pending (-) SetToBag({load})
    /\ ev' = Event("error", load.url, "", 0, "")
    /\ UNCHANGED <<player, scene, held, camera, hudEl, hud, raf, frame, composed, ups,
                   diveTime>>
    /\ UNCHANGED server

\* a request arrives on an idle connection and the listener runs, part_000 174
Receive(c, req, payload, fs) ==
    /\ conns[c].phase = "idle"
    /\ conns' = [conns EXCEPT ![c] = onRequest(scenes, req, payload, fs)]
    /\ UNCHANGED scenes
    /\ UNCHANGED client

\* a chunk of a telemetry body arrives, part_000 208-210
Data(c, n) ==
    /\ conns[c].phase = "body"
    /\ n \in 1..Len(conns[c].rest)
    /\ conns' = [conns EXCEPT ![c] = onData(conns[c], n)]
    /\ UNCHANGED scenes
    /\ UNCHANGED client

\* a telemetry body has arrived whole, part_000 211-219
End(c) ==
    /\ conns[c].phase = "body"
    /\ conns[c].rest = <<>>
    /\ conns' = [conns EXCEPT ![c] = onEnd(conns[c])]
    /\ UNCHANGED scenes
    /\ UNCHANGED client

\* an answered connection is done with and can take the next request
Close(c) ==
    /\ conns[c].phase = "done"
    /\ conns' = [conns EXCEPT ![c] = Idle]
    /\ UNCHANGED scenes
    /\ UNCHANGED client

----------------------------------------------------------------------------
(* Specifications.  Each draws its events from the sets named before it.   *)

\* Spec: a session that switches among scenes, valid and not, while flying
\* with the nose-down key
Ids == {"coast", "alps", "moon"}
Keys == {"w"}
Deltas == {0, 2}

Next ==
    \/ \E id \in Ids : SceneSelect(id)
    \/ \E key \in Keys : KeyDown(key)
    \/ \E key \in Keys : KeyUp(key)
    \/ \E delta \in Deltas : Tick(delta)
    \/ \E load \in BagToSet(pending) : TextureLoaded(load)
    \/ \E load \in BagToSet(pending) : TextureFailed(load)

Spec == Init /\ [][Next]_vars

\* SpecNoHud: the same session in a page without a #hud element
SpecNoHud == InitNoHud /\ [][Next]_vars

\* SpecFlight: one scene, both keys of both axes, ticks of 0 and 1 s
FlightIds == {"coast"}
FlightKeys == {"w", "s", "a", "d"}
FlightDeltas == {0, 2}

NextFlight ==
    \/ \E id \in FlightIds : SceneSelect(id)
    \/ \E key \in FlightKeys : KeyDown(key)
    \/ \E key \in FlightKeys : KeyUp(key)
    \/ \E delta \in FlightDeltas : Tick(delta)
    \/ \E load \in BagToSet(pending) : TextureLoaded(load)
    \/ \E load \in BagToSet(pending) : TextureFailed(load)

SpecFlight == Init /\ [][NextFlight]_vars

\* SpecThrottle: both throttle keys, ticks of 0 and 2 s, selections of an
\* unknown scene only
ThrottleIds == {"moon"}
ThrottleKeys == {"ArrowUp", "ArrowDown"}
ThrottleDeltas == {0, 4}

NextThrottle ==
    \/ \E id \in ThrottleIds : SceneSelect(id)
    \/ \E key \in ThrottleKeys : KeyDown(key)
    \/ \E key \in ThrottleKeys : KeyUp(key)
    \/ \E delta \in ThrottleDeltas : Tick(delta)
    \/ \E load \in BagToSet(pending) : TextureLoaded(load)
    \/ \E load \in BagToSet(pending) : TextureFailed(load)

SpecThrottle == Init /\ [][NextThrottle]_vars

\* SpecDive: one scene, the throttle-increase key and the nose-down key,
\* ticks of 0 and 2 s
DiveIds == {"coast"}
DiveKeys == {"ArrowUp", "w"}
DiveDeltas == {0, 4}

NextDive ==
    \/ \E id \in DiveIds : SceneSelect(id)
    \/ \E key \in DiveKeys : KeyDown(key)
    \/ \E key \in DiveKeys : KeyUp(key)
    \/ \E delta \in DiveDeltas : Tick(delta)
    \/ \E load \in BagToSet(pending) : TextureLoaded(load)
    \/ \E load \in BagToSet(pending) : TextureFailed(load)

SpecDive == Init /\ [][NextDive]_vars

\* SpecPitch: both pitch keys, ticks of 0, 0.5 and 1 s, selections of an
\* unknown scene only
PitchIds == {"moon"}
PitchKeys == {"w", "s"}
PitchDeltas == {0, 1, 2}

NextPitch ==
    \/ \E id \in PitchIds : SceneSelect(id)
    \/ \E key \in PitchKeys : KeyDown(key)
    \/ \E key \in PitchKeys : KeyUp(key)
    \/ \E delta \in PitchDeltas : Tick(delta)
    \/ \E load \in BagToSet(pending) : TextureLoaded(load)
    \/ \E load \in BagToSet(pending) : TextureFailed(load)

SpecPitch == Init /\ [][NextPitch]_vars

\* SpecFrames: frames of no elapsed time, scene selections, a pitch key and
\* a roll key; the browser runs a queued animation-frame callback eventually
FrameIds == {"coast", "moon"}
FrameKeys == {"w", "d"}
FrameDeltas == {0}

NextFrames ==
    \/ \E id \in FrameIds : SceneSelect(id)
    \/ \E key \in FrameKeys : KeyDown(key)
    \/ \E key \in FrameKeys : KeyUp(key)
    \/ \E delta \in FrameDeltas : Tick(delta)
    \/ \E load \in BagToSet(pending) : TextureLoaded(load)
    \/ \E load \in BagToSet(pending) : TextureFailed(load)

\* the browser runs the queued animate callback: the Tick step as the event
\* history shows it, enabled exactly when Tick is
FrameRuns ==
    /\ raf > 0
    /\ player.position[3] > 0 - MaxRange * PosScale
    /\ \E delta \in FrameDeltas : ev' = Event("tick", "", "", delta, "")

SpecFrames == Init /\ [][NextFrames]_vars /\ WF_ev(FrameRuns)

\* SpecKeys: one scene, the throttle-decrease key, keys of both axes in
\* either case, frames of no elapsed time
KeysIds == {"coast"}
KeysKeys == {"ArrowDown", "w", "S", "d"}
KeysDeltas == {0}

NextKeys ==
    \/ \E id \in KeysIds : SceneSelect(id)
    \/ \E key \in KeysKeys : KeyDown(key)
    \/ \E key \in KeysKeys : KeyUp(key)
    \/ \E delta \in KeysDeltas : Tick(delta)
    \/ \E load \in BagToSet(pending) : TextureLoaded(load)
    \/ \E load \in BagToSet(pending) : TextureFailed(load)

SpecKeys == Init /\ [][NextKeys]_vars

\* SpecServer: two connections to the server; requests of every branch of
\* the listener, telemetry bodies of up to MaxBody characters in chunks of
\* any size; the page is idle
BodyChars == {"[", "]", "7"}
Payloads == UNION {[1..n -> BodyChars] : n \in 0..MaxBody}
FsOutcomes == {"file", "index", "none"}
Requests ==
    {IncomingMessage("GET", "/api/scenes", <<>>),
     IncomingMessage("POST", "/api/scenes", <<>>),
     IncomingMessage("GET", "/api/presets", <<>>),
     IncomingMessage("GET", "/api/presets", <<"coast">>),
     IncomingMessage("GET", "/api/presets", <<"alps">>),
     IncomingMessage("GET", "/api/presets", <<"desert">>),
     IncomingMessage("GET", "/api/presets", <<"moon">>),
     IncomingMessage("GET", "/api/presets", <<"moon", "coast">>),
     IncomingMessage("POST", "/api/presets", <<"coast">>),
     IncomingMessage("POST", "/api/telemetry", <<>>),
     IncomingMessage("GET", "/api/telemetry", <<>>),
     IncomingMessage("OPTIONS", "/api/telemetry", <<>>),
     IncomingMessage("GET", "/", <<>>)}

NextServer ==
    \/ \E c \in Conns, req \in Requests, payload \in Payloads, fs \in FsOutcomes :
          Receive(c, req, payload, fs)
    \/ \E c \in Conns, n \in 1..MaxBody : Data(c, n)
    \/ \E c \in Conns : End(c)
    \/ \E c \in Conns : Close(c)

SpecServer == Init /\ [][NextServer]_vars

----------------------------------------------------------------------------
(* Properties *)

\* the step just taken was a scene selection with the id of a catalog entry
Switched == ev.type = "change" /\ ev.id \in SceneIds
\* the step just taken was a scene selection with an id the catalog lacks
Rejected == ev.type = "change" /\ ev.id \notin SceneIds
\* the load started for the active World is still unsettled
HasLive == \E load \in BagToSet(pending) : load.live

\* C1: a scene selection with a valid id leaves the aircraft's position, pitch
\* angle, roll angle and throttle as they were before the switch.
C1_SwitchKeepsAircraft ==
    [][Switched' =>
          /\ player'.position = player.position
          /\ player'.rotation = player.rotation
          /\ player'.throttle = player.throttle]_vars

PitchAxisKeys == {"w", "W", "s", "S"}
RollAxisKeys == {"a", "A", "d", "D"}

\* C2: the pitch angle stays within [-30, 30] degrees and the roll angle within
\* [-75, 75] degrees in every reachable state.
C2_AnglesWithinLimits ==
    /\ player.rotation.x >= 0 - maxPitchAngle
    /\ player.rotation.x <= maxPitchAngle
    /\ player.rotation.z >= 0 - maxRollAngle
    /\ player.rotation.z <= maxRollAngle

\* C2 witness: a tick ran with both inputs held and left both angles at their
\* limits (75 degrees of roll is reached only through the clamp)
C2_HeldAgainstLimits ==
    /\ ev.type = "tick"
    /\ ev.delta > 0
    /\ player.pitchInput = 0 - 1
    /\ player.rotation.x = 0 - maxPitchAngle
    /\ player.rollInput = 1
    /\ player.rotation.z = maxRollAngle

\* C3: the altitude is never below 2.
C3_AltitudeFloor == player.position[2] >= groundFloor * PosScale

\* C3 witness: a tick of nose-down flight at full throttle ended on the floor
C3_DiveAtFullThrottle ==
    /\ ev.type = "tick"
    /\ ev.delta > 0
    /\ player.throttle = ThrottleScale
    /\ player.velocity = maxSpeed * VelScale
    /\ player.rotation.x = 0 - maxPitchAngle
    /\ player.position[2] = groundFloor * PosScale

\* C4: throttle stays within [0, 1]; an ArrowUp press raises it by 0.05 up to
\* 1.0 and an ArrowDown press lowers it by 0.05 down to 0; after n ArrowUp
\* presses on a new Airplane it is min(1, 0.3 + 0.05 n), so 1.0 after 20, and
\* the tick that follows computes the speed 150.
C4_ThrottleSaturates ==
    /\ [](player.throttle >= 0 /\ player.throttle <= ThrottleScale)
    /\ [](ups # NoRun => player.throttle = Min(ThrottleScale, Airplane.throttle + 5 * ups))
    /\ []((ups = RunCap /\ ev.type = "tick") => player.velocity = maxSpeed * VelScale)
    /\ [][/\ (ev'.type = "keydown" /\ ev'.key = "ArrowUp") =>
                 player'.throttle = Min(ThrottleScale, player.throttle + 5)
          /\ (ev'.type = "keydown" /\ ev'.key = "ArrowDown") =>
                 player'.throttle = Max(0, player.throttle - 5)]_vars

\* C4 witness: a tick ran after 20 ArrowUp presses on a new Airplane
C4_TwentyPresses ==
    /\ ups = RunCap
    /\ ev.type = "tick"
    /\ player.throttle = ThrottleScale

\* C5: right after an update the speed is 20 + 130 * throttle.
C5_SpeedFromThrottle ==
    ev.type \in {"init", "tick"} =>
        player.velocity * ThrottleScale =
            minSpeed * VelScale * ThrottleScale
            + (maxSpeed - minSpeed) * VelScale * player.throttle

\* C5 witness: a tick ran nose-down onto the floor after seven ArrowUp presses
\* had raised the throttle of a new Airplane, whose speed was another before
C5_TickAfterThrottleChange ==
    /\ ev.type = "tick"
    /\ ev.delta > 0
    /\ ups = 7
    /\ player.rotation.x = 0 - maxPitchAngle
    /\ player.position[2] = groundFloor * PosScale

\* C6: a release of a pitch (roll) key leaves pitchInput (rollInput) 0, whether
\* or not the opposing key is down, and an input that is 0 becomes non-zero
\* only by a key press on its axis.
C6_ReleaseZeroesAxis ==
    /\ []((ev.type = "keyup" /\ ev.key \in RollAxisKeys) => player.rollInput = 0)
    /\ []((ev.type = "keyup" /\ ev.key \in PitchAxisKeys) => player.pitchInput = 0)
    /\ [][/\ (player.rollInput = 0 /\ player'.rollInput # 0) =>
                 (ev'.type = "keydown" /\ ev'.key \in RollAxisKeys)
          /\ (player.pitchInput = 0 /\ player'.pitchInput # 0) =>
                 (ev'.type = "keydown" /\ ev'.key \in PitchAxisKeys)]_vars

\* C6 witness: left-roll was released while right-roll, which had turned the
\* aircraft, was still down
C6_ReleasedWithOpposingHeld ==
    /\ ev.type = "keyup"
    /\ ev.key = "a"
    /\ "d" \in held
    /\ player.rotation.z > 0
    /\ player.rollInput = 0

\* C7: the ground of the active World carries no texture or the texture its own
\* scene definition names, never one requested for an earlier World.
C7_TextureOfActiveScene ==
    \/ scene.ground.map = NoTexture
    \/ scene.ground.map = Texture(find(scene.def).groundTexture)

\* C7 witness: a load started for a discarded World finished after the active
\* World had received its own texture
C7_StaleLoadFinished ==
    /\ ev.type = "load"
    /\ ev.key # find(scene.def).groundTexture
    /\ scene.ground.map # NoTexture

\* C8: a scene selection with an id that is not in SCENES changes neither the
\* World, nor the unsettled loads, nor the aircraft, and the tick stays queued.
C8_UnknownSceneIsNoOp ==
    [][Rejected' => (UNCHANGED <<scene, pending, player, raf>> /\ raf' > 0)]_vars

\* C8 witness: an unknown id was selected in mid-flight with a load unsettled
C8_UnknownSelectedInFlight ==
    /\ Rejected
    /\ player.position # Airplane.position
    /\ pending # EmptyBag

\* C9: buildScene leaves the ground with the definition's flat colour and no
\* texture; a failed load changes nothing; while no load for the active World is
\* unsettled and it has no texture, it keeps its flat ground until the next
\* buildScene; and the tick stays queued throughout.
C9_FlatGroundFallback ==
    /\ []((ev.type = "init" \/ Switched) =>
             scene.ground = [color |-> find(scene.def).groundColor, map |-> NoTexture])
    /\ [](raf > 0)
    /\ [][/\ ev'.type = "error" => UNCHANGED <<scene, player, raf>>
          /\ (~HasLive /\ scene.ground.map = NoTexture /\ ~Switched') =>
                 scene'.ground = scene.ground]_vars

\* C9 witness: the active World's load failed and a tick ran afterwards on the
\* flat ground
C9_TickAfterFailedLoad ==
    /\ ~HasLive
    /\ scene.ground.map = NoTexture
    /\ ev.type = "tick"
    /\ ev.delta > 0

\* C10: a World composed from a definition equals, in background, fog, lights
\* and ground colour, the World of the first composition of that definition.
C10_ComposeDeterministic ==
    \A c \in composed : c.def = scene.def => Composition(scene) = c

\* C10 witness: the first scene was composed again after another one, with a
\* flown tick and a finished texture load in between
C10_RoundTrip ==
    /\ Switched
    /\ ev.id = SCENES[1].id
    /\ ev.from = SCENES[2].id
    /\ camera.target[3] < 0
    /\ \E load \in BagToSet(pending) : ~load.live

\* C11: once the nose-down input has been in effect for 1 s of tick time,
\* counted from level flight, the pitch angle is exactly -30 degrees, and it
\* is -30 degrees after every further tick for as long as the input stays
\* in effect.
C11_PitchDownSaturates ==
    (diveTime # NoRun /\ diveTime >= TimeScale) => player.rotation.x = 0 - 30

\* C11 witness: a tick has run 1.5 s after the nose-down key went down in
\* level flight, the key still held
C11_HeldPastOneSecond ==
    /\ ev.type = "tick"
    /\ ev.delta > 0
    /\ diveTime = TimeScale + 1
    /\ "w" \in held
    /\ player.rotation.x = 0 - 30

\* C12: an aircraft that has just been created, at the start of the session
\* or by a scene selection, has throttle 0.3 and speed 59.
C12_NewAircraftSpeed ==
    (ev.type = "init" \/ Switched) =>
        /\ player.throttle = 30
        /\ player.velocity = 59 * VelScale

\* C13: at every moment exactly one animate callback is queued: a tick
\* replaces itself by one successor, no key event, scene selection or
\* texture completion adds or removes one, and tick follows tick for ever
\* when the browser runs queued callbacks.
C13_OneTickChain ==
    /\ [](raf = 1)
    /\ [][raf' = raf]_vars
    /\ []<>(ev.type = "tick")

\* C13 witness: a tick has run after a key went down, a scene was selected
\* and its texture arrived
C13_TickAfterOtherEvents ==
    /\ ev.type = "tick"
    /\ raf = 1
    /\ "w" \in held
    /\ scene.ground.map # NoTexture
    /\ pending # EmptyBag
    /\ frame.scene = scene

\* C14: in a page without the HUD element nothing is ever written as HUD
\* text, and every tick still updates the aircraft, places the camera,
\* renders the World and leaves one successor queued.
C14_TickWithoutHud ==
    /\ [](~hudEl /\ hud = NoHud /\ raf = 1)
    /\ [][ev'.type = "tick" =>
            /\ player' = update(player, ev'.delta)
            /\ camera' = cameraFor(player')
            /\ frame' = render(scene', camera')]_vars

\* C14 witness: without the HUD element a tick of 1 s has moved the
\* aircraft and drawn it, and the HUD text is still unwritten
C14_FlownWithoutHud ==
    /\ ~hudEl
    /\ ev.type = "tick"
    /\ ev.delta > 0
    /\ player.position[3] < 0
    /\ frame = render(scene, camera)
    /\ hud = NoHud
    /\ raf = 1

\* the request on connection c is a telemetry POST
Telemetry(c) ==
    conns[c].req.method = "POST" /\ conns[c].req.pathname = "/api/telemetry"

\* the JSON texts of up to three characters over "[", "]" and "7"
JsonTexts ==
    {<<"7">>, <<"7", "7">>, <<"[", "]">>, <<"7", "7", "7">>, <<"[", "7", "]">>}

\* C15: a telemetry POST is not answered while its body is arriving and is
\* answered exactly once when the body has arrived whole: 200 {status: ok}
\* when the body is a JSON text, 400 when it is not; the server's scenes
\* and presets are never changed.
C15_TelemetryAnsweredOnce ==
    /\ scenes = ServerScenes
    /\ \A c \in Conns :
          Telemetry(c) =>
              /\ conns[c].phase = "body" => conns[c].res = <<>>
              /\ conns[c].phase = "done" =>
                    /\ conns[c].body = conns[c].payload
                    /\ Len(conns[c].res) = 1
                    /\ conns[c].res[1] =
                          IF conns[c].payload \in JsonTexts
                          THEN [status |-> 200, data |-> [status |-> "ok"]]
                          ELSE [status |-> 400, data |-> [error |-> "Invalid JSON"]]

\* C15 witness: one telemetry POST with body "[]" has been acknowledged,
\* one with body "[" refused, with the scenes as they were
C15_AcknowledgedAndRefused ==
    /\ Telemetry("a")
    /\ conns["a"].phase = "done"
    /\ conns["a"].payload = <<"[", "]">>
    /\ conns["a"].res[1].status = 200
    /\ Telemetry("b")
    /\ conns["b"].phase = "done"
    /\ conns["b"].payload = <<"[">>
    /\ conns["b"].res[1].status = 400
    /\ scenes = ServerScenes

\* the request on connection c is a GET of `pathname` that has been answered
Answered(c, pathname) ==
    /\ conns[c].phase = "done"
    /\ conns[c].req.method = "GET"
    /\ conns[c].req.pathname = pathname

\* C16: a presets query is answered with the presets of the catalog entry
\* whose id is the queried one, and with 404 when no entry has that id or
\* no id is given; a scene-list query is answered with the {id, name}
\* pairs of the catalog in catalog order.
C16_CatalogQueries ==
    \A c \in Conns :
        /\ Answered(c, "/api/presets") =>
              LET query == conns[c].req.query
                  hits == {i \in 1..Len(ServerScenes) :
                              Len(query) = 1 /\ ServerScenes[i].id = query[1]}
              IN  /\ Len(conns[c].res) = 1
                  /\ conns[c].res[1].status = IF hits = {} THEN 404 ELSE 200
                  /\ hits = {} => conns[c].res[1].data = [error |-> "Scene not found"]
                  /\ \A i \in hits : conns[c].res[1].data = ServerScenes[i].presets
        /\ Answered(c, "/api/scenes") =>
              conns[c].res =
                  << [status |-> 200,
                      data |-> << [id |-> "coast", name |-> ServerScenes[1].name],
                                  [id |-> "alps", name |-> ServerScenes[2].name],
                                  [id |-> "desert", name |-> ServerScenes[3].name] >>] >>

\* C16 witness: the presets of "alps" have been returned on one connection
\* and a query without an id refused on the other
C16_FoundAndMissing ==
    /\ Answered("a", "/api/presets")
    /\ conns["a"].req.query = <<"alps">>
    /\ conns["a"].res[1].data.weather = <<"clair", "neige", "brumeux">>
    /\ Answered("b", "/api/presets")
    /\ conns["b"].req.query = <<>>
    /\ conns["b"].res[1].status = 404

\* C17: every tick is one step in which the aircraft is updated once with
\* the tick's own delta, the camera is then placed from the updated pose,
\* the active World is then rendered from that camera, and the HUD is then
\* written from the updated aircraft; the World, the loads and the keys are
\* as they were when the tick began.
C17_TickIsOneFrame ==
    [][ev'.type = "tick" =>
          /\ player' = update(player, ev'.delta)
          /\ camera' = cameraFor(player')
          /\ frame' = render(scene, camera')
          /\ hud' = updateHUD(hud, hudEl, player')
          /\ UNCHANGED <<scene, pending, held>>]_vars

\* C17 witness: a tick of 1 s has run with the nose-down key held on a
\* textured World: the aircraft has pitched and moved, and camera, frame
\* and HUD show it
C17_FrameOfPitchedAircraft ==
    /\ ev.type = "tick"
    /\ ev.delta > 0
    /\ "w" \in held
    /\ player.rotation.x = 0 - 30
    /\ player.position[3] < 0
    /\ camera.target = player.position
    /\ frame.camera = camera
    /\ frame.scene.ground.map # NoTexture
    /\ hud.altitude = toFixed(player.position[2], PosScale, 1)

\* C18 as stated: a tick with delta 0 leaves the whole aircraft state, the
\* speed included, as it was.
C18_ZeroDeltaNoOp ==
    [][(ev'.type = "tick" /\ ev'.delta = 0) => player' = player]_vars

\* C18 amended: a tick with delta 0 leaves pitch, roll, position, throttle,
\* pitchInput and rollInput as they were and sets the speed to
\* 20 + 130 * throttle.
C18_ZeroDeltaRefreshesSpeed ==
    [][(ev'.type = "tick" /\ ev'.delta = 0) =>
          player' = [player EXCEPT
                        !.velocity = 20 * VelScale
                                     + (130 * VelScale * player.throttle) \div ThrottleScale]
      ]_vars

\* C18 witness: a tick with delta 0 has run after three presses of the
\* throttle-increase key, the key still held
C18_ZeroTickAfterThrottle ==
    /\ ev.type = "tick"
    /\ ev.delta = 0
    /\ ups = 3
    /\ "ArrowUp" \in held
    /\ player.throttle = 45
    /\ player.velocity = 7850
    /\ player.position = Airplane.position

\* the step just taken was a press or a release of a key of the pitch axis
PitchEvent == ev.type \in {"keydown", "keyup"} /\ ev.key \in PitchAxisKeys
\* the step just taken was a press or a release of a key of the roll axis
RollEvent == ev.type \in {"keydown", "keyup"} /\ ev.key \in RollAxisKeys

\* C19: pitchInput and rollInput are each -1, 0 or 1; each is 0 on a new
\* aircraft, becomes -1 on a press of the axis's negative key, 1 on a press
\* of its positive key and 0 on a release of either, and changes at no
\* other step; a key event of one axis leaves the throttle as it was.
C19_InputsFollowKeys ==
    /\ [](player.pitchInput \in {0 - 1, 0, 1} /\ player.rollInput \in {0 - 1, 0, 1})
    /\ []((ev.type = "init" \/ Switched) => (player.pitchInput = 0 /\ player.rollInput = 0))
    /\ []((ev.type = "keydown" /\ ev.key \in {"w", "W"}) => player.pitchInput = 0 - 1)
    /\ []((ev.type = "keydown" /\ ev.key \in {"s", "S"}) => player.pitchInput = 1)
    /\ []((ev.type = "keydown" /\ ev.key \in {"a", "A"}) => player.rollInput = 0 - 1)
    /\ []((ev.type = "keydown" /\ ev.key \in {"d", "D"}) => player.rollInput = 1)
    /\ []((ev.type = "keyup" /\ ev.key \in PitchAxisKeys) => player.pitchInput = 0)
    /\ []((ev.type = "keyup" /\ ev.key \in RollAxisKeys) => player.rollInput = 0)
    /\ [][/\ ~(PitchEvent' \/ Switched') => player'.pitchInput = player.pitchInput
          /\ ~(RollEvent' \/ Switched') => player'.rollInput = player.rollInput
          /\ (PitchEvent' \/ RollEvent') => player'.throttle = player.throttle]_vars

\* C19 witness: the nose-down key has just gone down while the roll-right
\* key is held and the throttle has been lowered
C19_PressWithOtherAxisActive ==
    /\ ev.type = "keydown"
    /\ ev.key = "w"
    /\ player.pitchInput = 0 - 1
    /\ player.rollInput = 1
    /\ "d" \in held
    /\ player.throttle = 20

\* C20: the callback of a finished texture load leaves the active World's
\* definition, background, fog, lights and ground colour, the aircraft, the
\* camera, the HUD and the frame queue as they were; the ground's texture
\* either stays or becomes the image of the active World's own definition,
\* repeated 500 by 500.
C20_LoadTouchesOnlyGroundMap ==
    [][ev'.type = "load" =>
          /\ Composition(scene') = Composition(scene)
          /\ \/ scene'.ground.map = scene.ground.map
             \/ /\ scene'.ground.map.repeat = <<500, 500>>
                /\ scene'.ground.map.image = ev'.key
                /\ \E i \in 1..Len(SCENES) :
                      SCENES[i].id = scene.def /\ SCENES[i].groundTexture = ev'.key
          /\ UNCHANGED <<player, held, camera, hud, raf, frame>>]_vars

\* C20 witness: the texture of the selected scene "alps" has just arrived,
\* the aircraft in a dive away from the start
C20_TextureArrivedInFlight ==
    /\ ev.type = "load"
    /\ scene.def = "alps"
    /\ scene.ground.map.image = "assets/alps.png"
    /\ scene.ground.map.repeat = <<500, 500>>
    /\ player.position[3] < 0
    /\ player.pitchInput = 0 - 1

\* C21: a tick leaves the throttle, pitchInput and rollInput of the
\* aircraft and the World with its texture loads as they were, so a held
\* input and a set throttle last from one key event to the next.
C21_UpdateKeepsControls ==
    [][ev'.type = "tick" =>
          /\ player'.throttle = player.throttle
          /\ player'.pitchInput = player.pitchInput
          /\ player'.rollInput = player.rollInput
          /\ UNCHANGED <<scene, pending>>]_vars

\* C21 witness: a tick of 2 s has run with the nose-down input in effect
\* and the throttle raised twice: the aircraft has pitched and moved, input
\* and throttle are as the keys left them
C21_TickUnderHeldInput ==
    /\ ev.type = "tick"
    /\ ev.delta > 0
    /\ ups = 2
    /\ player.throttle = 40
    /\ player.pitchInput = 0 - 1
    /\ player.rotation.x = 0 - 30
    /\ player.position[3] < 0

\* C22: the HUD text, whenever one has been written, shows a speed equal to
\* 20 + 130 * the throttle it shows and an altitude of at least 2, whatever
\* key presses and scene selections came between the ticks.
C22_HudConsistent ==
    hud # NoHud =>
        /\ hud.speed = 200 + 13 * hud.throttle
        /\ hud.altitude >= 20

\* C22 witness: after a scene selection and two presses of the
\* throttle-increase key a tick has written the HUD: 40 %, 72.0
C22_HudAfterSwitchAndThrottle ==
    /\ ev.type = "tick"
    /\ ups = 2
    /\ \E load \in BagToSet(pending) : ~load.live
    /\ hud.throttle = 40
    /\ hud.speed = 720
    /\ hud.altitude = 50

\* C23: when every release follows a press of the same key, a pitchInput
\* other than 0 means a key of the pitch axis is down, and a rollInput other
\* than 0 means a key of the roll axis is down.
C23_InputMeansKeyHeld ==
    /\ player.pitchInput # 0 => held \cap PitchAxisKeys # {}
    /\ player.rollInput # 0 => held \cap RollAxisKeys # {}

\* C23 witness: the nose-down input is in effect with its key down, while
\* the roll-right key is down with the roll input at 0
C23_HeldWithoutInput ==
    /\ player.pitchInput = 0 - 1
    /\ "w" \in held
    /\ "d" \in held
    /\ player.rollInput = 0
    /\ ev.type = "keydown"

\* C24: the aircraft's x coordinate is always 0; across a tick its z
\* coordinate does not increase, its altitude rises only when the pitch
\* angle the tick leaves is above 0, and its position is the one the tick
\* gives the same aircraft with roll angle and roll input 0.
C24_RollFreeTrajectory ==
    /\ [](player.position[1] = 0)
    /\ [][ev'.type = "tick" =>
              /\ player'.position[3] <= player.position[3]
              /\ player'.position[2] > player.position[2] => player'.rotation.x > 0
              /\ player'.position =
                    update([player EXCEPT !.rollInput = 0, !.rotation.z = 0],
                           ev'.delta).position]_vars

\* C24 witness: a tick of 1 s has run with the aircraft rolled and pitched
\* up: it has climbed and gone forward, with x still 0
C24_ClimbWhileRolled ==
    /\ ev.type = "tick"
    /\ ev.delta > 0
    /\ player.rotation.z # 0
    /\ player.rollInput # 0
    /\ player.rotation.x > 0
    /\ player.position[1] = 0
    /\ player.position[2] > Airplane.position[2]
    /\ player.position[3] < 0

=============================================================================
